---- MODULE Spec2Model ----
(***************************************************************************)
(* A model of the MPSC channel of src/src/lib.rs: one shared              *)
(* Mutex<VecDeque<T>> with a Condvar, cloneable Senders (push_back) and    *)
(* one Receiver (pop_front).  Every Sender handle is used by one thread;   *)
(* the Receiver is used by the consumer thread, which calls dequeue in a   *)
(* loop as the tests of lib.rs do.                                         *)
(***************************************************************************)
EXTENDS Integers, Sequences, FiniteSets

\* Bounds of the model.
MaxSenders == 2     \* Sender handles that ever exist (the original and its clones)
MaxEnq == 3         \* enqueue calls made over the whole run

Handles == 1..MaxSenders
Original == 1       \* the Sender returned by MpscQueue::new
Consumer == 0       \* the thread that owns the Receiver
Free == -1          \* the buffer mutex is not held

VARIABLES
    buffer,     \* Inner::inner_ : the VecDeque behind the mutex
    mutex,      \* the holder of the buffer mutex, or Free
    strong,     \* strong count of the Arc<MpscQueue<T>>
    cache_,     \* Receiver::cache_
    sender,     \* per handle: "none" (not created yet), "live", "dropped"
    spc,        \* per handle: where its thread is inside push_back
    sarg,       \* per handle: p_data of the enqueue call in progress
    sent,       \* per handle: enqueue calls made so far
    rpc,        \* where the consumer thread is inside its dequeue loop
    delivered,  \* what dequeue has returned so far, in order
    enqueued,   \* the values in the order they were appended to the buffer
    acquired    \* the values in the order their push_back took the mutex

vars == <<buffer, mutex, strong, cache_, sender, spc, sarg, sent, rpc,
          delivered, enqueued, acquired>>

\* Option<T>
None == <<"None">>
Some(v) == <<"Some", v>>

\* The values: the n-th value passed to enqueue through handle h.
Val(h, n) == <<h, n>>
NoArg == <<0, 0>>

\* VecDeque::is_empty, push_back, pop_front (result and remaining queue).
IsEmpty(q) == Len(q) = 0
\* (a push at the wrong end of the VecDeque)
VecPushFront(q, v) == <<v>> \o q
VecPushBack(q, v) == Append(q, v)
\* (a pop at the wrong end of the VecDeque)
VecPopBack(q) ==
    IF Len(q) = 0 THEN <<None, q>>
    ELSE <<Some(q[Len(q)]), SubSeq(q, 1, Len(q) - 1)>>
VecPopFront(q) == IF Len(q) = 0 THEN <<None, q>> ELSE <<Some(Head(q)), Tail(q)>>

Live == {h \in Handles : sender[h] = "live"}
TotalSent == LET RECURSIVE Sum(_)
                 Sum(S) == IF S = {} THEN 0
                           ELSE LET h == CHOOSE x \in S : TRUE
                                IN sent[h] + Sum(S \ {h})
             IN Sum(Handles)

\* MpscQueue::new: an empty buffer, one Sender and the Receiver, each holding
\* one strong reference to the queue.
Init ==
    /\ buffer = <<>>
    /\ mutex = Free
    /\ strong = 2
    /\ cache_ = <<>>
    /\ sender = [h \in Handles |-> IF h = Original THEN "live" ELSE "none"]
    /\ spc = [h \in Handles |-> "idle"]
    /\ sarg = [h \in Handles |-> NoArg]
    /\ sent = [h \in Handles |-> 0]
    /\ rpc = "idle"
    /\ delivered = <<>>
    /\ enqueued = <<>>
    /\ acquired = <<>>

\* #[derive(Clone)] on Sender: Arc::clone of queue_.
SenderClone(h, c) ==
    /\ sender[h] = "live" /\ spc[h] = "idle"
    /\ sender[c] = "none"
    /\ sender' = [sender EXCEPT ![c] = "live"]
    /\ strong' = strong + 1
    /\ UNCHANGED <<buffer, mutex, cache_, spc, sarg, sent, rpc, delivered, enqueued, acquired>>

\* Dropping a Sender: there is no Drop impl, only the Arc releases its reference.
SenderDrop(h) ==
    /\ sender[h] = "live" /\ spc[h] = "idle"
    /\ sender' = [sender EXCEPT ![h] = "dropped"]
    /\ strong' = strong - 1
    /\ UNCHANGED <<buffer, mutex, cache_, spc, sarg, sent, rpc, delivered, enqueued, acquired>>

\* Sender::enqueue calls push_back.
Enqueue(h) ==
    /\ sender[h] = "live" /\ spc[h] = "idle"
    /\ TotalSent < MaxEnq
    /\ sent' = [sent EXCEPT ![h] = @ + 1]
    /\ sarg' = [sarg EXCEPT ![h] = Val(h, sent[h] + 1)]
    /\ spc' = [spc EXCEPT ![h] = "lock"]
    /\ UNCHANGED <<buffer, mutex, strong, cache_, sender, rpc, delivered, enqueued, acquired>>

\* (a push_back that goes on without having got the mutex)
PushLockNoWait(h) ==
    /\ spc[h] = "lock"
    /\ mutex' = h
    /\ spc' = [spc EXCEPT ![h] = "push"]
    /\ acquired' = Append(acquired, sarg[h])
    /\ UNCHANGED <<buffer, strong, cache_, sender, sarg, sent, rpc, delivered, enqueued>>

\* push_back: self.buffer_.lock()
PushLock(h) ==
    /\ spc[h] = "lock"
    /\ mutex = Free
    /\ mutex' = h
    /\ spc' = [spc EXCEPT ![h] = "push"]
    /\ acquired' = Append(acquired, sarg[h])
    /\ UNCHANGED <<buffer, strong, cache_, sender, sarg, sent, rpc, delivered, enqueued>>

\* (a push_back that waits for room in a queue of capacity one)
PushBackBounded(h) ==
    /\ spc[h] = "push"
    /\ Len(buffer) < 1
    /\ buffer' = VecPushBack(buffer, sarg[h])
    /\ enqueued' = Append(enqueued, sarg[h])
    /\ spc' = [spc EXCEPT ![h] = "unlock"]
    /\ UNCHANGED <<mutex, strong, cache_, sender, sarg, sent, rpc, delivered, acquired>>

\* push_back: lock_buffer.push_back(p_data)
PushBack(h) ==
    /\ spc[h] = "push"
    /\ buffer' = VecPushBack(buffer, sarg[h])
    /\ enqueued' = Append(enqueued, sarg[h])
    /\ spc' = [spc EXCEPT ![h] = "unlock"]
    /\ UNCHANGED <<mutex, strong, cache_, sender, sarg, sent, rpc, delivered, acquired>>

\* push_back: the guard goes out of scope
PushUnlock(h) ==
    /\ spc[h] = "unlock"
    /\ mutex' = Free
    /\ spc' = [spc EXCEPT ![h] = "notify"]
    /\ UNCHANGED <<buffer, strong, cache_, sender, sarg, sent, rpc, delivered, enqueued, acquired>>

\* (a notify_one that is left out)
NotifyOneMissed(pc) == pc

\* Condvar::notify_one: wakes the thread waiting on cv_, if there is one.
NotifyOne(pc) == IF pc = "waiting" THEN "woken" ELSE pc

\* push_back: self.cv_.notify_one(), and enqueue returns
PushNotify(h) ==
    /\ spc[h] = "notify"
    /\ rpc' = NotifyOne(rpc)
    /\ spc' = [spc EXCEPT ![h] = "idle"]
    /\ sarg' = [sarg EXCEPT ![h] = NoArg]
    /\ UNCHANGED <<buffer, mutex, strong, cache_, sender, sent, delivered, enqueued, acquired>>

\* What the consumer loop does with a result: None ends the thread.
AfterResult(r) == IF r = None THEN "returned" ELSE "idle"

\* (a dequeue whose test of the cache is inverted)
DequeueCacheTestInverted ==
    /\ rpc = "idle"
    /\ IF IsEmpty(cache_)
       THEN /\ cache_' = VecPopFront(cache_)[2]
            /\ delivered' = Append(delivered, VecPopFront(cache_)[1])
            /\ rpc' = AfterResult(VecPopFront(cache_)[1])
       ELSE /\ rpc' = "lock"
            /\ UNCHANGED <<cache_, delivered>>
    /\ UNCHANGED <<buffer, mutex, strong, sender, spc, sarg, sent, enqueued, acquired>>

\* Receiver::dequeue: the cache is served first, else pop_front is entered.
Dequeue ==
    /\ rpc = "idle"
    /\ IF ~IsEmpty(cache_)
       THEN /\ cache_' = VecPopFront(cache_)[2]
            /\ delivered' = Append(delivered, VecPopFront(cache_)[1])
            /\ rpc' = AfterResult(VecPopFront(cache_)[1])
       ELSE /\ rpc' = "lock"
            /\ UNCHANGED <<cache_, delivered>>
    /\ UNCHANGED <<buffer, mutex, strong, sender, spc, sarg, sent, enqueued, acquired>>

\* (a pop_front that tests is_empty once, with if in place of while)
PopLockNoRecheck ==
    /\ rpc \in {"lock", "woken"}
    /\ mutex = Free
    /\ mutex' = Consumer
    /\ rpc' = IF rpc = "woken" THEN "pop" ELSE "check"
    /\ UNCHANGED <<buffer, strong, cache_, sender, spc, sarg, sent, delivered, enqueued, acquired>>

\* pop_front: self.buffer_.lock(), and the re-lock when cv_.wait returns
PopLock ==
    /\ rpc \in {"lock", "woken"}
    /\ mutex = Free
    /\ mutex' = Consumer
    /\ rpc' = "check"
    /\ UNCHANGED <<buffer, strong, cache_, sender, spc, sarg, sent, delivered, enqueued, acquired>>

\* (a pop_front that leaves its loop when no Sender is left)
PopCheckUntilClosed ==
    /\ rpc = "check"
    /\ IF IsEmpty(buffer) /\ Live # {}
       THEN /\ mutex' = Free
            /\ rpc' = "waiting"
       ELSE /\ rpc' = "pop"
            /\ UNCHANGED mutex
    /\ UNCHANGED <<buffer, strong, cache_, sender, spc, sarg, sent, delivered, enqueued, acquired>>

\* (pop_front without the is_empty test and the wait)
PopCheckNoWait ==
    /\ rpc = "check"
    /\ rpc' = "pop"
    /\ UNCHANGED <<buffer, mutex, strong, cache_, sender, spc, sarg, sent, delivered, enqueued, acquired>>

\* pop_front: while locked_buffer.is_empty() { cv_.wait(..) }: the wait releases
\* the mutex and parks the thread in one step
PopCheck ==
    /\ rpc = "check"
    /\ IF IsEmpty(buffer)
       THEN /\ mutex' = Free
            /\ rpc' = "waiting"
       ELSE /\ rpc' = "pop"
            /\ UNCHANGED mutex
    /\ UNCHANGED <<buffer, strong, cache_, sender, spc, sarg, sent, delivered, enqueued, acquired>>

\* a spurious wakeup of cv_.wait
SpuriousWake ==
    /\ rpc = "waiting"
    /\ rpc' = "woken"
    /\ UNCHANGED <<buffer, mutex, strong, cache_, sender, spc, sarg, sent, delivered, enqueued, acquired>>

\* (a pop_front that returns the front value and leaves it in the queue)
PopFrontKeep ==
    /\ rpc = "pop"
    /\ delivered' = Append(delivered, VecPopFront(buffer)[1])
    /\ mutex' = Free
    /\ rpc' = AfterResult(VecPopFront(buffer)[1])
    /\ UNCHANGED <<buffer, strong, cache_, sender, spc, sarg, sent, enqueued, acquired>>

\* pop_front: locked_buffer.pop_front(), the guard is dropped and dequeue returns
PopFront ==
    /\ rpc = "pop"
    /\ buffer' = VecPopFront(buffer)[2]
    /\ delivered' = Append(delivered, VecPopFront(buffer)[1])
    /\ mutex' = Free
    /\ rpc' = AfterResult(VecPopFront(buffer)[1])
    /\ UNCHANGED <<strong, cache_, sender, spc, sarg, sent, enqueued, acquired>>

Next ==
    \/ \E h \in Handles, c \in Handles : SenderClone(h, c)
    \/ \E h \in Handles : SenderDrop(h)
    \/ \E h \in Handles : Enqueue(h)
    \/ \E h \in Handles : PushLock(h)
    \/ \E h \in Handles : PushBack(h)
    \/ \E h \in Handles : PushUnlock(h)
    \/ \E h \in Handles : PushNotify(h)
    \/ Dequeue
    \/ PopLock
    \/ PopCheck
    \/ SpuriousWake
    \/ PopFront

Spec == Init /\ [][Next]_vars

\* The threads are scheduled fairly: a thread that can take its next step takes
\* it, and a thread that asks for the mutex again and again gets it.  The
\* consumer keeps calling dequeue.  When a Sender is cloned, dropped or used
\* is the program's choice, and a spurious wakeup is never promised.
Fairness ==
    /\ \A h \in Handles :
          /\ SF_vars(PushLock(h))
          /\ WF_vars(PushBack(h))
          /\ WF_vars(PushUnlock(h))
          /\ WF_vars(PushNotify(h))
    /\ WF_vars(Dequeue)
    /\ SF_vars(PopLock)
    /\ WF_vars(PopCheck)
    /\ WF_vars(PopFront)

FairSpec == Spec /\ Fairness

\* Only the producer threads are scheduled fairly, once they hold the mutex;
\* the consumer thread may run, wait or never run again.
SenderFairness ==
    \A h \in Handles :
        /\ WF_vars(PushBack(h))
        /\ WF_vars(PushUnlock(h))
        /\ WF_vars(PushNotify(h))

SenderFairSpec == Spec /\ SenderFairness

----------------------------------------------------------------------------
\* Vocabulary of the properties.

SomeAll(q) == [i \in 1..Len(q) |-> Some(q[i])]
LastIsNone == Len(delivered) > 0 /\ delivered[Len(delivered)] = None
NoSenderLeft == \A h \in Handles : sender[h] # "live"
InPopFront == rpc \in {"lock", "check", "waiting", "woken", "pop"}
NotifyPending == \E h \in Handles : spc[h] \in {"unlock", "notify"}
Times(v) == Cardinality({i \in 1..Len(delivered) : delivered[i] = Some(v)})

----------------------------------------------------------------------------
\* C1  Drain-before-close: once every Sender is dropped, the dequeue calls
\* return the enqueued values in enqueue order and then None; None is never
\* returned while an enqueued value is still undelivered.
C1_DrainThenNone ==
    /\ [](LastIsNone => IsEmpty(buffer) /\ \A h \in Handles : spc[h] = "idle")
    /\ (NoSenderLeft ~> (delivered = Append(SomeAll(enqueued), None)))

\* C2  No lost wakeup on close: when the Receiver is blocked in dequeue on an
\* empty queue and every Sender is then dropped, the Receiver is woken and its
\* dequeue returns None.
C2_WokenOnClose ==
    []((rpc = "waiting" /\ IsEmpty(buffer) /\ Live # {})
          => (<>NoSenderLeft => <>LastIsNone))

\* C3  No lost wakeup on enqueue: the Receiver is never parked on the condition
\* variable with a value in the queue unless a Sender still has its unlock or
\* notify_one to do, and a dequeue in progress with a value in the queue
\* eventually returns a value.
C3_NoLostWakeupOnEnqueue ==
    /\ []((rpc = "waiting" /\ ~IsEmpty(buffer)) => NotifyPending)
    /\ \A n \in 0..MaxEnq :
          (InPopFront /\ ~IsEmpty(buffer) /\ Len(delivered) = n)
             ~> (Len(delivered) > n /\ delivered[n + 1] # None)

\* The Receiver was parked on an empty queue, a Sender has appended a value and
\* released the mutex, and its notify_one is still to come.
C3_Witness ==
    /\ rpc = "waiting" /\ ~IsEmpty(buffer)
    /\ \E h \in Handles : spc[h] = "notify"

\* C4  FIFO order: the values of one Sender are returned by dequeue in the
\* order of that Sender's enqueue calls.
C4_FifoPerSender ==
    \A i, j \in 1..Len(delivered) :
        \A h \in Handles, a, b \in 1..MaxEnq :
            (i < j /\ delivered[i] = Some(Val(h, a)) /\ delivered[j] = Some(Val(h, b)))
               => a < b

\* Two values of one Sender were delivered with a value of another Sender
\* between them.
C4_Witness ==
    \E h, g \in Handles :
        /\ h # g
        /\ Len(delivered) = 3
        /\ delivered[1] = Some(Val(h, 1))
        /\ delivered[2] = Some(Val(g, 1))
        /\ delivered[3] = Some(Val(h, 2))

\* C5  Fan-in: when each of the K Senders has enqueued M values and all are
\* dropped, the Receiver eventually has dequeued exactly those K*M values,
\* each once, and then None.
C5_FanIn ==
    (/\ \A h \in Handles : sender[h] = "dropped"
     /\ \E m \in 1..MaxEnq : \A h \in Handles : sent[h] = m)
       ~> (/\ Len(delivered) = TotalSent + 1
           /\ LastIsNone
           /\ \A h \in Handles : \A n \in 1..sent[h] : Times(Val(h, n)) = 1)

\* C6  Consumer termination as the tests require it: the creating thread keeps
\* the original Sender and sends nothing through it, every producer enqueues
\* through its clone and drops it, and the consumer loop receives None and
\* returns.
C6_ConsumerReturns ==
    <>[](/\ sender[Original] = "live" /\ sent[Original] = 0
         /\ \A h \in Handles \ {Original} : sender[h] = "dropped" /\ sent[h] > 0)
       => <>(rpc = "returned")

\* C8  Idempotent close: the drop of the last live Sender closes the channel,
\* which wakes a Receiver waiting on the condition variable.
C8_LastDropCloses ==
    [][(Cardinality(Live) = 1 /\ Cardinality(Live') = 0 /\ rpc = "waiting")
          => rpc' # "waiting"]_vars

\* C9  The count of Sender handles kept in the shared state equals the number
\* of live Sender handles.
C9_CountIsLiveSenders ==
    strong = Cardinality(Live)

C11_EnqueueCompletes ==
    \A h \in Handles : \A n \in 1..MaxEnq :
        (spc[h] = "push" /\ sarg[h] = Val(h, n))
           ~> (/\ spc[h] = "idle"
               /\ \E i \in 1..Len(enqueued) : enqueued[i] = Val(h, n))

\* A Sender holds the mutex and is about to append to a queue that already
\* holds two values, while the Receiver is not taking values out.
C11_Witness ==
    \E h \in Handles :
        spc[h] = "push" /\ Len(buffer) >= 2 /\ rpc \in {"idle", "woken"}

\* C12  Closed is terminal: once no Sender is left and the queue is empty, a
\* dequeue that tests the queue does not wait on the condition variable.
C12_ClosedDoesNotWait ==
    [][(NoSenderLeft /\ IsEmpty(buffer) /\ rpc = "check") => rpc' # "waiting"]_vars

C14_DrainingNeverBlocks ==
    /\ []((NoSenderLeft /\ ~IsEmpty(buffer)) => (rpc # "waiting" /\ ~LastIsNone))
    /\ [][(NoSenderLeft /\ ~IsEmpty(buffer) /\ delivered' # delivered)
             => (/\ delivered' = Append(delivered, Some(Head(buffer)))
                 /\ buffer' = Tail(buffer))]_vars
    /\ (NoSenderLeft ~> IsEmpty(buffer))

\* Every Sender is dropped, the Receiver has taken one value out and is about
\* to take the next of the values left in the queue.
C14_Witness ==
    /\ NoSenderLeft /\ rpc = "pop"
    /\ Len(delivered) >= 1 /\ Len(buffer) >= 2

\* C15  Spurious-wakeup guard: pop_front pops only from a non-empty queue while
\* it holds the mutex, and every result it returns is the head the queue had at
\* that moment, however often the wait returns.
C15_RecheckAfterWake ==
    /\ [](rpc = "pop" => (~IsEmpty(buffer) /\ mutex = Consumer))
    /\ [][delivered' # delivered
             => (/\ ~IsEmpty(buffer)
                 /\ delivered' = Append(delivered, Some(Head(buffer))))]_vars

\* The wait has returned although nothing was ever enqueued: a spurious
\* wakeup, after which pop_front takes the mutex and tests the queue again.
C15_Witness ==
    rpc = "woken" /\ IsEmpty(buffer) /\ TotalSent = 0 /\ Len(acquired) = 0

\* The threads inside the critical sections of push_back and pop_front.
InCritical ==
    {h \in Handles : spc[h] \in {"push", "unlock"}}
       \cup (IF rpc \in {"check", "pop"} THEN {Consumer} ELSE {})

IsPrefix(p, q) == Len(p) <= Len(q) /\ p = SubSeq(q, 1, Len(p))

\* C16  Mutual exclusion: the thread inside a critical section is the one
\* holder of the mutex, the queue changes only by the holder's operation (an
\* append of the one new value, or the removal of the head), and the values are
\* appended in the order in which their push_back took the mutex.
C16_MutualExclusion ==
    /\ [](InCritical = IF mutex = Free THEN {} ELSE {mutex})
    /\ [][buffer' # buffer
             => (/\ mutex # Free
                 /\ IF mutex = Consumer
                    THEN rpc = "pop" /\ buffer' = Tail(buffer)
                    ELSE spc[mutex] = "push" /\ buffer' = Append(buffer, sarg[mutex]))]_vars
    /\ [](IsPrefix(enqueued, acquired) /\ Len(acquired) <= Len(enqueued) + 1)

\* One Sender holds the mutex with its value not yet appended while another
\* Sender and the Receiver are both asking for the mutex.
C16_Witness ==
    \E h, g \in Handles :
        /\ h # g
        /\ spc[h] = "push" /\ mutex = h
        /\ spc[g] = "lock"
        /\ rpc \in {"lock", "woken"}
        /\ Len(acquired) = Len(enqueued) + 1

\* C17  The Receiver-local cache does not change delivery: cache_ is always
\* empty, every dequeue call goes to the shared pop_front without returning
\* anything from the cache, and so the results of dequeue are the values taken
\* from the shared queue, in its order.
C17_CacheChangesNothing ==
    /\ [](IsEmpty(cache_))
    /\ [][rpc = "idle" /\ rpc' # "idle"
             => (rpc' = "lock" /\ delivered' = delivered /\ cache_' = cache_)]_vars
    /\ [](IsPrefix(delivered, SomeAll(enqueued)))

\* A dequeue call has looked at the cache after two earlier calls returned.
C17_Witness ==
    rpc = "lock" /\ Len(delivered) >= 2 /\ IsEmpty(cache_)

\* C18  Exactly-once delivery: the results returned so far followed by the
\* contents of the shared queue are the values in the order they were appended.
C18_ExactlyOnce ==
    delivered \o SomeAll(cache_) \o SomeAll(buffer) = SomeAll(enqueued)

\* Values of two Senders have been appended; one was returned and the others
\* are still in the queue.
C18_Witness ==
    /\ Len(delivered) = 1 /\ Len(buffer) = 2
    /\ \E i, j \in 1..Len(enqueued) : enqueued[i][1] # enqueued[j][1]

====
